---- MODULE Spec2Model ----
(***************************************************************************)
(* A model of the SGX enclave measurement hasher (signature/hasher.rs) and *)
(* of the SIGSTRUCT types (sig.rs): Masked, Author, Measurement,           *)
(* RsaNumber, Signature, Measurement::sign and Signature::read_from.       *)
(*                                                                         *)
(* A Digest is modelled by the bytes fed to it: Digest::new() is the empty *)
(* byte string and update(bytes) appends.  Integers wider than 31 bits are *)
(* kept as a pair of 32-bit halves, [hi, lo].                              *)
(***************************************************************************)
EXTENDS Integers, Sequences, FiniteSets, TLC

VARIABLES
    digest,     \* Hasher.0: the bytes fed to the digest so far
    before,     \* Hasher.0 as it was when the last call to the Hasher began
    last,       \* the last call made to the Hasher: arguments and result
    loaded,     \* pages loaded into the Hasher so far
    mk,         \* a Masked<T> value and how it was made
    cmp,        \* the last comparison of mk with a plain T
    probe,      \* the field of a structure testaso looked at last
    rd,         \* the last call of Signature::read_from
    sg          \* the last call of Measurement::sign

hvars == <<digest, before, last, loaded>>
svars == <<mk, cmp, probe, rd, sg>>
vars == <<digest, before, last, loaded, mk, cmp, probe, rd, sg>>

(***************************************************************************)
(* Bounds of the model.                                                    *)
(***************************************************************************)
\* the most pages one enclave image holds, and so one load call carries
MaxPages == 3
\* Hasher::new is tried with enclave sizes of 0..MaxSizePages pages
MaxSizePages == 12
\* ... and with 1..MaxSsa SSA frame pages
MaxSsa == 6
\* the T of Masked<T> is an unsigned integer of MaskBits bits
MaskBits == 3
\* Measurement::sign is tried with every modulus of 1..MaxModulus
MaxModulus == 16

(***************************************************************************)
(* Bytes and integer encodings.                                            *)
(***************************************************************************)
Zeros(n) == [i \in 1..n |-> 0]

\* uN::to_le_bytes for a value below 2^31: n bytes, least significant first
RECURSIVE to_le_bytes(_, _)
to_le_bytes(v, n) ==
    IF n = 0 THEN <<>> ELSE <<v % 256>> \o to_le_bytes(v \div 256, n - 1)

\* u64::to_le_bytes of a 64-bit value kept as two 32-bit halves
u64_to_le_bytes(x) == to_le_bytes(x.lo, 4) \o to_le_bytes(x.hi, 4)

\* `v as u64` for a usize v below 2^31
as_u64(v) == [hi |-> 0, lo |-> v]

\* slice::chunks(n): the j-th chunk (from 1) of s; the last may be short
chunk(s, n, j) ==
    SubSeq(s, (j - 1) * n + 1, IF j * n < Len(s) THEN j * n ELSE Len(s))

\* slice::chunks(n).len()
chunk_count(s, n) == (Len(s) + n - 1) \div n

\* Digest::new
Digest_new == <<>>

\* Digest::update
Digest_update(d, bytes) == d \o bytes

(***************************************************************************)
(* signature/hasher.rs                                                     *)
(***************************************************************************)
ECREATE == [hi |-> \h00455441, lo |-> \h45524345]
EEXTEND == [hi |-> \h00444E45, lo |-> \h54584545]
EADD == [hi |-> \h00000000, lo |-> \h44444145]
PAGE == 4096
SEGMENT == 256
SECINFO_HASHED == 48
RESERVED_ECREATE == 44
RESERVED_EEXTEND == 48

\* A SecInfo value as the bytes it has in memory: flags, page class, and
\* reserved zero bytes up to 64.
SecInfo(flags, class) == <<flags, class>> \o Zeros(62)
SecInfo_tcs == SecInfo(0, 1)
SecInfo_reg_rwx == SecInfo(7, 2)
SecInfos == {SecInfo_tcs, SecInfo_reg_rwx}

\* Hasher::new with size and ssa swapped in the record (a mutant)
Hasher_new_swapped(size, ssa_frame_pages) ==
    LET d0 == Digest_new
        d1 == Digest_update(d0, u64_to_le_bytes(ECREATE))
        d2 == Digest_update(d1, u64_to_le_bytes(as_u64(size)))
        d3 == Digest_update(d2, to_le_bytes(ssa_frame_pages, 4))
    IN  Digest_update(d3, Zeros(RESERVED_ECREATE))

\* Hasher::new: the digest after ECREATE
Hasher_new(size, ssa_frame_pages) ==
    LET d0 == Digest_new
        d1 == Digest_update(d0, u64_to_le_bytes(ECREATE))
        d2 == Digest_update(d1, to_le_bytes(ssa_frame_pages, 4))
        d3 == Digest_update(d2, u64_to_le_bytes(as_u64(size)))
    IN  Digest_update(d3, Zeros(RESERVED_ECREATE))

\* the size check accepting any whole number of segments (a mutant)
size_ok_segment(pages) == Len(pages) % SEGMENT = 0

\* `pages.len() % PAGE != 0` does not hold
size_ok(pages) == Len(pages) % PAGE = 0

\* the 48 bytes of secinfo that are hashed
secinfo_bytes(secinfo) == SubSeq(secinfo, 1, SECINFO_HASHED)

\* EEXTEND for every page, measured or not (a mutant)
do_extend_always(measure) == TRUE

\* `if measure`
do_extend(measure) == measure

\* the segment offset left where it is (a mutant)
next_off_stuck(off, segment) == off

\* `off += segment.len()`
next_off(off, segment) == off + Len(segment)

\* every page hashed at the offset of the first (a mutant)
next_offset_stuck(offset, page) == offset

\* `offset += page.len()`
next_offset(offset, page) == offset + Len(page)

\* the inner loop of load from segment k of the page on: EEXTEND records
RECURSIVE extend_segments(_, _, _, _)
extend_segments(d, page, k, off) ==
    IF k > chunk_count(page, SEGMENT) THEN d
    ELSE LET segment == chunk(page, SEGMENT, k)
             d1 == Digest_update(d, u64_to_le_bytes(EEXTEND))
             d2 == Digest_update(d1, u64_to_le_bytes(as_u64(off)))
             d3 == Digest_update(d2, Zeros(RESERVED_EEXTEND))
             d4 == Digest_update(d3, segment)
         IN  CHOOSE r \in {extend_segments(s[1], page, k + 1, s[2]) :
                            s \in {<<d4, next_off(off, segment)>>}} : TRUE

\* the body of the outer loop of load: EADD, then EEXTEND if measured
load_page(d, page, offset, secinfo, measure) ==
    LET d1 == Digest_update(d, u64_to_le_bytes(EADD))
        d2 == Digest_update(d1, u64_to_le_bytes(as_u64(offset)))
        d3 == Digest_update(d2, secinfo_bytes(secinfo))
    IN  IF do_extend(measure)
        THEN CHOOSE r \in {extend_segments(d4, page, 1, offset) :
                            d4 \in {d3}} : TRUE
        ELSE d3

\* the outer loop of load from page j on
RECURSIVE load_pages(_, _, _, _, _, _)
load_pages(d, pages, j, offset, secinfo, measure) ==
    IF j > chunk_count(pages, PAGE) THEN d
    ELSE CHOOSE r \in
             {load_pages(s[1], pages, j + 1, s[2], secinfo, measure) :
                 s \in {<<load_page(d, page, offset, secinfo, measure),
                           next_offset(offset, page)>> :
                         page \in {chunk(pages, PAGE, j)}}} : TRUE

\* Hasher::load: the result and the digest after it
Hasher_load(d, pages, offset, secinfo, measure) ==
    IF ~size_ok(pages)
    THEN [ret |-> "InvalidSize", digest |-> d]
    ELSE [ret |-> "Ok",
          digest |-> load_pages(d, pages, 1, offset, secinfo, measure)]

(***************************************************************************)
(* The callers of the Hasher.                                              *)
(***************************************************************************)
\* page contents: fill 0 is vec![0; len]; another fill gives bytes that
\* differ from segment to segment and from page to page
Pages(len, fill) ==
    [i \in 1..len |-> (fill * (i + (i - 1) \div SEGMENT)) % 256]
Fills == {0, 1}

\* lengths a caller passes: whole pages, and whole pages plus a rest
Rests == {0, 1, SEGMENT, PAGE - 1}
Lens == {p * PAGE + r : p \in 0..MaxPages, r \in Rests} \cap 0..(MaxPages * PAGE)
PageLens == {p * PAGE : p \in 1..MaxPages}
Offsets == {0, PAGE}

NoCall ==
    [op |-> "none", size |-> 0, ssa |-> 0, len |-> 0, fill |-> 0,
     offset |-> 0, secinfo |-> <<>>, measure |-> FALSE, ret |-> "none"]

NewCall(size, ssa) ==
    [NoCall EXCEPT !.op = "new", !.size = size, !.ssa = ssa, !.ret = "Ok"]

LoadCall(len, fill, offset, secinfo, measure, ret) ==
    [NoCall EXCEPT !.op = "load", !.len = len, !.fill = fill,
                   !.offset = offset, !.secinfo = secinfo,
                   !.measure = measure, !.ret = ret]

Sizes == {k * PAGE : k \in 0..MaxSizePages} \cup {1048576, 2147483647}
SsaFramePages == (1..MaxSsa) \cup {256, 65537, 2147483647}

\* no Hasher yet
NoHasher ==
    /\ digest = <<>>
    /\ before = <<>>
    /\ last = NoCall
    /\ loaded = 0

\* let mut hasher = Hasher::new(size, ssa_frame_pages)
New ==
    /\ last.op = "none"
    /\ \E size \in Sizes, ssa \in SsaFramePages :
          /\ digest' = Hasher_new(size, ssa)
          /\ last' = NewCall(size, ssa)
    /\ before' = <<>>
    /\ loaded' = 0
    /\ UNCHANGED svars

\* the state after Hasher::new(1 << 20, pages), as in test::badsize
Created ==
    /\ \E ssa \in {1, 2} :
          /\ digest = Hasher_new(1048576, ssa)
          /\ last = NewCall(1048576, ssa)
    /\ before = <<>>
    /\ loaded = 0

\* hasher.load(&pages, offset, secinfo, measure) on the hasher
Load(len, fill, offset, secinfo, measure) ==
    \E r \in {Hasher_load(digest, Pages(len, fill), offset, secinfo, measure)} :
        /\ before' = digest
        /\ digest' = r.digest
        /\ last' = LoadCall(len, fill, offset, secinfo, measure, r.ret)
        /\ loaded' = IF r.ret = "Ok" THEN loaded + len \div PAGE ELSE loaded
        /\ UNCHANGED svars

\* the first call of load, with any arguments
LoadAny ==
    /\ last.op = "new"
    /\ \E len \in Lens, fill \in Fills, offset \in Offsets,
          secinfo \in SecInfos, measure \in BOOLEAN :
          Load(len, fill, offset, secinfo, measure)

\* after InvalidSize the caller passes the whole buffer, as test::badsize
\* does: the same call with the length rounded up to whole pages
LoadWhole ==
    /\ last.op = "load"
    /\ last.ret = "InvalidSize"
    /\ Load(((last.len + PAGE - 1) \div PAGE) * PAGE, last.fill, last.offset,
            last.secinfo, last.measure)

\* an image loaded piece by piece, each piece where the last one ended
\* and with a secinfo and a measure flag of its own
LoadNext ==
    /\ last.op # "none"
    /\ \E len \in PageLens, secinfo \in SecInfos, measure \in BOOLEAN :
          /\ loaded + len \div PAGE <= MaxPages
          /\ Load(len, 1, loaded * PAGE, secinfo, measure)

(***************************************************************************)
(* sig.rs: Masked<T>                                                       *)
(***************************************************************************)
T_MAX == 2 ^ MaskBits - 1
T_values == 0..T_MAX

\* T::bitand
RECURSIVE bitand(_, _)
bitand(a, b) ==
    IF a = 0 \/ b = 0 THEN 0
    ELSE (a % 2) * (b % 2) + 2 * bitand(a \div 2, b \div 2)

\* T::bitor
RECURSIVE bitor(_, _)
bitor(a, b) ==
    IF a = 0 THEN b
    ELSE IF b = 0 THEN a
    ELSE (IF a % 2 = 1 \/ b % 2 = 1 THEN 1 ELSE 0)
         + 2 * bitor(a \div 2, b \div 2)

\* T::not
bitnot(a) == T_MAX - a

\* Masked::from with the value as its own mask (a mutant)
Masked_from_self_mask(value) == [data |-> value, mask |-> value]

\* impl From<T> for Masked<T>
Masked_from(value) == [data |-> value, mask |-> bitor(value, bitnot(value))]

\* impl PartialEq<T> for Masked<T>
Masked_eq(self, other) == bitand(self.mask, self.data) = bitand(self.mask, other)

NoMasked == [made |-> "none", data |-> 0, mask |-> 0]
NoCmp == [done |-> FALSE, other |-> 0, result |-> FALSE]

\* let mk = Masked::from(value)
MaskedFrom ==
    /\ \E value \in T_values :
          mk' = [made |-> "from", data |-> Masked_from(value).data,
                 mask |-> Masked_from(value).mask]
    /\ cmp' = NoCmp
    /\ UNCHANGED <<hvars, probe, rd, sg>>

\* let mk = Masked { data, mask }
MaskedLiteral ==
    /\ \E data \in T_values, mask \in T_values :
          mk' = [made |-> "literal", data |-> data, mask |-> mask]
    /\ cmp' = NoCmp
    /\ UNCHANGED <<hvars, probe, rd, sg>>

\* mk == other
MaskedEq ==
    /\ mk.made # "none"
    /\ \E other \in T_values :
          cmp' = [done |-> TRUE, other |-> other,
                  result |-> Masked_eq(mk, other)]
    /\ UNCHANGED <<hvars, mk, probe, rd, sg>>

(***************************************************************************)
(* sig.rs: the layout of Author, Measurement and Signature.  A type is its *)
(* size and alignment; a #[repr(C)] struct lays its fields out in order,   *)
(* each at the next multiple of its alignment.                             *)
(***************************************************************************)
u8 == [size |-> 1, align |-> 1]
u16 == [size |-> 2, align |-> 2]
u32 == [size |-> 4, align |-> 4]
\* u128 is 8-aligned on the x86_64 targets of the crate's toolchain
u128 == [size |-> 16, align |-> 8]
array(elem, n) == [size |-> elem.size * n, align |-> elem.align]

round_up(n, align) == ((n + align - 1) \div align) * align
max(a, b) == IF a > b THEN a ELSE b

\* offset_of the i-th field of a #[repr(C)] struct
RECURSIVE offset_of(_, _)
offset_of(fields, i) ==
    IF i = 1 THEN 0
    ELSE round_up(offset_of(fields, i - 1) + fields[i - 1].ty.size,
                  fields[i].ty.align)

\* align_of a #[repr(C)] struct with the first i fields
RECURSIVE align_upto(_, _)
align_upto(fields, i) ==
    IF i = 0 THEN 1 ELSE max(align_upto(fields, i - 1), fields[i].ty.align)

align_of(fields) == align_upto(fields, Len(fields))

\* size_of a #[repr(C)] struct
size_of(fields) ==
    round_up(offset_of(fields, Len(fields)) + fields[Len(fields)].ty.size,
             align_of(fields))

struct(fields) == [size |-> size_of(fields), align |-> align_of(fields)]

\* the types of the crate that sig.rs uses
MiscSelect == [size |-> 4, align |-> 4]
Attributes == [size |-> 16, align |-> 4]
ProductId == u16
SecurityVersion == u16

Masked_fields(T) == <<[name |-> "data", ty |-> T], [name |-> "mask", ty |-> T]>>

\* Author with a reserved field of 20 words (a mutant)
Author_fields_short ==
    <<[name |-> "header1", ty |-> u128],
      [name |-> "vendor", ty |-> u32],
      [name |-> "date", ty |-> u32],
      [name |-> "header2", ty |-> u128],
      [name |-> "swdefined", ty |-> u32],
      [name |-> "reserved", ty |-> array(u32, 20)]>>

Author_fields ==
    <<[name |-> "header1", ty |-> u128],
      [name |-> "vendor", ty |-> u32],
      [name |-> "date", ty |-> u32],
      [name |-> "header2", ty |-> u128],
      [name |-> "swdefined", ty |-> u32],
      [name |-> "reserved", ty |-> array(u32, 21)]>>

Measurement_fields ==
    <<[name |-> "misc", ty |-> struct(Masked_fields(MiscSelect))],
      [name |-> "reserved0", ty |-> array(u8, 20)],
      [name |-> "attr", ty |-> struct(Masked_fields(Attributes))],
      [name |-> "mrenclave", ty |-> array(u8, 32)],
      [name |-> "reserved1", ty |-> array(u8, 32)],
      [name |-> "isv_prod_id", ty |-> ProductId],
      [name |-> "isv_svn", ty |-> SecurityVersion]>>

RsaNumber_SIZE == 384
RsaNumber_fields == <<[name |-> "0", ty |-> array(u8, RsaNumber_SIZE)]>>

Signature_fields ==
    <<[name |-> "author", ty |-> struct(Author_fields)],
      [name |-> "modulus", ty |-> struct(RsaNumber_fields)],
      [name |-> "exponent", ty |-> u32],
      [name |-> "signature", ty |-> struct(RsaNumber_fields)],
      [name |-> "measurement", ty |-> struct(Measurement_fields)],
      [name |-> "reserved", ty |-> array(u8, 12)],
      [name |-> "q1", ty |-> struct(RsaNumber_fields)],
      [name |-> "q2", ty |-> struct(RsaNumber_fields)]>>

Structs == {"Author", "Measurement", "Signature"}

fields_of(name) ==
    CASE name = "Author" -> Author_fields
      [] name = "Measurement" -> Measurement_fields
      [] name = "Signature" -> Signature_fields

\* what the testaso! block expects: alignment, size and field offsets
testaso(name) ==
    CASE name = "Author" ->
            [align |-> 8, size |-> 128,
             offsets |-> <<0, 16, 20, 24, 40, 44>>]
      [] name = "Measurement" ->
            [align |-> 4, size |-> 128,
             offsets |-> <<0, 8, 28, 60, 92, 124, 126>>]
      [] name = "Signature" ->
            [align |-> 8, size |-> 1808,
             offsets |-> <<0, 128, 512, 516, 900, 1028, 1040, 1424>>]

NoProbe ==
    [name |-> "none", index |-> 0, count |-> 0, field |-> "", offset |-> 0,
     size |-> 0, prev_end |-> 0, struct_size |-> 0, struct_align |-> 0,
     passed |-> FALSE]

\* one field of one structure under testaso!: where the field lies, and
\* whether the test's assertions on it and on the structure hold
TestAso ==
    /\ \E name \in Structs :
          \E i \in 1..Len(fields_of(name)) :
             LET fields == fields_of(name)
                 want == testaso(name)
             IN  probe' =
                    [name |-> name, index |-> i, count |-> Len(fields),
                     field |-> fields[i].name,
                     offset |-> offset_of(fields, i),
                     size |-> fields[i].ty.size,
                     prev_end |-> IF i = 1 THEN 0
                                  ELSE offset_of(fields, i - 1)
                                       + fields[i - 1].ty.size,
                     struct_size |-> size_of(fields),
                     struct_align |-> align_of(fields),
                     passed |-> /\ align_of(fields) = want.align
                                /\ size_of(fields) = want.size
                                /\ offset_of(fields, i) = want.offsets[i]]
    /\ UNCHANGED <<hvars, mk, cmp, rd, sg>>

(***************************************************************************)
(* sig.rs: Signature::read_from                                            *)
(***************************************************************************)
\* Read::read_exact of n bytes from a source that holds src
read_exact(src, n) ==
    IF Len(src) >= n
    THEN [ret |-> "Ok", buf |-> SubSeq(src, 1, n), consumed |-> n]
    ELSE [ret |-> "UnexpectedEof", buf |-> <<>>, consumed |-> Len(src)]

\* the bytes of a Signature seen as its fields
Signature_of_bytes(buf) ==
    [i \in 1..Len(Signature_fields) |->
        SubSeq(buf, offset_of(Signature_fields, i) + 1,
               offset_of(Signature_fields, i) + Signature_fields[i].ty.size)]

\* Signature::read_from: read_exact(buf).unwrap(), then Ok(assume_init)
Signature_read_from(src) ==
    LET len == size_of(Signature_fields)
        r == read_exact(src, len)
    IN  IF r.ret = "Ok"
        THEN [ret |-> "Ok", consumed |-> r.consumed,
              value |-> Signature_of_bytes(r.buf)]
        ELSE [ret |-> "panic", consumed |-> r.consumed, value |-> <<>>]

\* the bytes a reader holds
Source(len, fill) == [i \in 1..len |-> (fill * i) % 256]
SourceLens ==
    {0, 1, size_of(Signature_fields) - 1, size_of(Signature_fields),
     size_of(Signature_fields) + 1, 2 * size_of(Signature_fields)}

NoRead ==
    [called |-> FALSE, len |-> 0, fill |-> 0, ret |-> "none",
     consumed |-> 0, value |-> <<>>]

\* Signature::read_from(reader)
ReadFrom ==
    /\ \E len \in SourceLens, fill \in Fills :
          \E r \in {Signature_read_from(Source(len, fill))} :
             rd' = [called |-> TRUE, len |-> len, fill |-> fill,
                    ret |-> r.ret, consumed |-> r.consumed,
                    value |-> r.value]
    /\ UNCHANGED <<hvars, mk, cmp, probe, sg>>

(***************************************************************************)
(* sig.rs: RsaNumber and Measurement::sign.  A BigNum is a natural number. *)
(***************************************************************************)
EXPONENT == 3

\* BigNumRef::to_vec: big-endian, no leading zero byte, empty for 0
RECURSIVE to_vec(_)
to_vec(value) ==
    IF value = 0 THEN <<>> ELSE to_vec(value \div 256) \o <<value % 256>>

\* impl TryFrom<&BigNumRef> for RsaNumber
RsaNumber_try_from(value) ==
    LET be == to_vec(value)
    IN  IF Len(be) > RsaNumber_SIZE
        THEN [ok |-> FALSE, le |-> <<>>]
        ELSE [ok |-> TRUE,
              le |-> [i \in 1..RsaNumber_SIZE |->
                         IF i <= Len(be) THEN be[Len(be) - i + 1] ELSE 0]]

\* BigNum::div_rem
div_rem(a, b) == [q |-> a \div b, r |-> a % b]

\* any exponent from 3 up taken (a mutant)
exponent_ok_atleast(e) == e >= EXPONENT

\* `key.e() != EXPONENT` does not hold
exponent_ok(e) == e = EXPONENT

\* q2 from the square and not from the remainder (a mutant)
q2_of_square(s, qr, m) == (s * s) \div m

\* `&(&s * &qr) / m`
q2_of(s, qr, m) == (s * qr) \div m

\* Author::new
Author_new(date, swdefined) ==
    [header1 |-> <<6, 0, 0, 0, 225, 0, 0, 0, 0, 0, 1, 0, 0, 0, 0, 0>>,
     vendor |-> 0,
     date |-> date,
     header2 |-> <<1, 1, 0, 0, 96, 0, 0, 0, 96, 0, 0, 0, 1, 0, 0, 0>>,
     swdefined |-> swdefined,
     reserved |-> Zeros(21)]

\* Parameters::measurement
Parameters_measurement(self, mrenclave) ==
    [misc |-> self.misc,
     reserved0 |-> Zeros(20),
     attr |-> self.attr,
     mrenclave |-> mrenclave,
     reserved1 |-> Zeros(32),
     isv_prod_id |-> self.isv_prod_id,
     isv_svn |-> self.isv_svn]

\* Parameters::default
Parameters_default ==
    [misc |-> Masked_from(0), attr |-> Masked_from(0),
     isv_prod_id |-> 0, isv_svn |-> 0]

NoSignature == <<>>

SignErr(signer, fed) ==
    [ret |-> "Err", signer |-> signer, fed |-> fed, arith |-> FALSE,
     value |-> NoSignature]

\* Measurement::sign.  The RSA signature is the signer's: s is the number
\* it returns; fault names the call into openssl that fails, if one does.
Measurement_sign(self, author, key, s, fault) ==
    IF fault = "from_u32" THEN SignErr(FALSE, <<>>)
    ELSE IF ~exponent_ok(key.e) THEN SignErr(FALSE, <<>>)
    ELSE LET a == size_of(Author_fields)
             c == size_of(Measurement_fields)
         IN  IF fault = "sign_to_vec" THEN SignErr(TRUE, <<a, c>>)
             ELSE LET m == key.n
                      dr == div_rem(s * s, m)
                      q1 == dr.q
                      qr == dr.r
                      q2 == q2_of(s, qr, m)
                      modulus == RsaNumber_try_from(m)
                      signature == RsaNumber_try_from(s)
                      q1n == RsaNumber_try_from(q1)
                      q2n == RsaNumber_try_from(q2)
                  IN  IF ~(modulus.ok /\ signature.ok /\ q1n.ok /\ q2n.ok)
                      THEN [SignErr(TRUE, <<a, c>>) EXCEPT !.arith = TRUE]
                      ELSE [ret |-> "Ok", signer |-> TRUE, fed |-> <<a, c>>,
                            arith |-> TRUE,
                            value |-> [author |-> author,
                                       modulus |-> modulus.le,
                                       exponent |-> EXPONENT,
                                       signature |-> signature.le,
                                       measurement |-> self,
                                       reserved |-> Zeros(12),
                                       q1 |-> q1n.le,
                                       q2 |-> q2n.le]]

\* the keys: any public exponent, a modulus, and the signatures the signer
\* can return for the modulus (every number below a small modulus, the
\* ends and the middle of the range below a large one)
Exponents == {1, EXPONENT, 5, 65537}
Moduli == (1..MaxModulus) \cup {255, 257, 46337}
Signatures(n) ==
    IF n <= MaxModulus THEN 0..(n - 1)
    ELSE {0, 1, n \div 2, n - 2, n - 1}
Faults == {"none", "from_u32", "sign_to_vec"}

NoSign ==
    [called |-> FALSE, e |-> 0, n |-> 0, s |-> 0, fault |-> "none",
     ret |-> "none", signer |-> FALSE, fed |-> <<>>, arith |-> FALSE,
     value |-> NoSignature]

\* measurement.sign(author, key), which takes the measurement by value
Sign ==
    /\ ~sg.called
    /\ \E e \in Exponents, n \in Moduli, fault \in Faults :
          \E s \in Signatures(n) :
             \E r \in {Measurement_sign(
                          Parameters_measurement(Parameters_default, Zeros(32)),
                          Author_new(20000330, 0), [e |-> e, n |-> n],
                          s, fault)} :
                sg' = [called |-> TRUE, e |-> e, n |-> n,
                       s |-> IF r.arith THEN s ELSE 0, fault |-> fault,
                       ret |-> r.ret, signer |-> r.signer, fed |-> r.fed,
                       arith |-> r.arith, value |-> r.value]
    /\ UNCHANGED <<hvars, mk, cmp, probe, rd>>

\* nothing of sig.rs has run
SigIdle ==
    /\ mk = NoMasked
    /\ cmp = NoCmp
    /\ probe = NoProbe
    /\ rd = NoRead
    /\ sg = NoSign

(***************************************************************************)
(* Specifications of the Hasher.                                           *)
(***************************************************************************)
\* Hasher::new alone, over many sizes and SSA frame counts
InitCreate == NoHasher /\ SigIdle
NextCreate == New
SpecCreate == InitCreate /\ [][NextCreate]_vars

\* a created Hasher and calls of load with any arguments
Init == Created /\ SigIdle
Next == LoadAny \/ LoadWhole
Spec == Init /\ [][Next]_vars

\* a created Hasher and an image loaded in consecutive pieces
NextSeq == LoadNext
SpecSeq == Init /\ [][NextSeq]_vars

(***************************************************************************)
(* Specifications of sig.rs.                                               *)
(***************************************************************************)
InitSig == NoHasher /\ SigIdle

NextMasked == MaskedFrom \/ MaskedLiteral \/ MaskedEq
SpecMasked == InitSig /\ [][NextMasked]_vars

NextRead == ReadFrom \/ TestAso
SpecRead == InitSig /\ [][NextRead]_vars

NextSign == Sign
SpecSign == InitSig /\ [][NextSign]_vars

(***************************************************************************)
(* Properties of the Hasher.                                               *)
(***************************************************************************)
\* the bytes of a little-endian number below 2^31 read back; -1 if it is more
from_le_bytes(b) ==
    IF \E i \in 1..Len(b) : (i > 4 /\ b[i] # 0) \/ (i = 4 /\ b[i] > 127)
    THEN -1
    ELSE (IF Len(b) >= 1 THEN b[1] ELSE 0)
         + (IF Len(b) >= 2 THEN b[2] * 256 ELSE 0)
         + (IF Len(b) >= 3 THEN b[3] * 65536 ELSE 0)
         + (IF Len(b) >= 4 THEN b[4] * 16777216 ELSE 0)

\* the pages of the last call
LastPages == Pages(last.len, last.fill)

\* C1: a load whose length is not a multiple of 4096 returns InvalidSize,
\* whatever the offset, the secinfo and the measure flag, and leaves the
\* digest as it was; a load whose length is a multiple of 4096 returns Ok.
C1_BadSizeRejected ==
    last.op = "load" =>
        /\ last.len % 4096 # 0 => (last.ret = "InvalidSize" /\ digest = before)
        /\ last.len % 4096 = 0 => last.ret = "Ok"

C1_Witness ==
    /\ last.op = "load"
    /\ last.len = 4095
    /\ last.offset = 4096
    /\ last.measure
    /\ last.ret = "InvalidSize"

\* the 8 bytes of a little-endian u64 below 2^31, byte by byte
C2_Le8(v) ==
    <<v % 256, (v \div 256) % 256, (v \div 65536) % 256,
      (v \div 16777216) % 256, 0, 0, 0, 0>>

\* the EADD record of page j (from 0) of the last call
C2_Add(j) ==
    <<69, 65, 68, 68, 0, 0, 0, 0>>
    \o C2_Le8(last.offset + 4096 * j)
    \o SubSeq(last.secinfo, 1, 48)

\* the EEXTEND record of segment k (from 0) of page j of the last call
C2_Extend(j, k) ==
    <<69, 69, 88, 84, 69, 78, 68, 0>>
    \o C2_Le8(last.offset + 4096 * j + 256 * k)
    \o [i \in 1..48 |-> 0]
    \o [i \in 1..256 |-> LastPages[4096 * j + 256 * k + i]]

RECURSIVE C2_Extends(_, _)
C2_Extends(j, k) ==
    IF k = 16 THEN <<>> ELSE C2_Extend(j, k) \o C2_Extends(j, k + 1)

RECURSIVE C2_Records(_)
C2_Records(j) ==
    IF j = last.len \div 4096 THEN <<>>
    ELSE C2_Add(j)
         \o (IF last.measure THEN C2_Extends(j, 0) ELSE <<>>)
         \o C2_Records(j + 1)

\* C2: a successful load appends, page by page, the EADD record (magic,
\* offset + 4096*j, 48 bytes of secinfo) and, when measured, the 16 EEXTEND
\* records of the page (magic, offset + 4096*j + 256*k, 48 zero bytes, the
\* 256 bytes of the segment), and nothing else.
C2_LoadAppends ==
    (last.op = "load" /\ last.ret = "Ok") => digest = before \o C2_Records(0)

C2_Witness ==
    /\ last.op = "load"
    /\ last.ret = "Ok"
    /\ last.len = 8192
    /\ last.measure
    /\ last.fill = 1
    /\ last.offset = 4096
    /\ Len(digest) = Len(before) + 2 * (64 + 16 * 320)

\* C3: Hasher::new feeds exactly 64 bytes: the ECREATE magic, ssa_frame_pages
\* in 4 little-endian bytes, size in 8 little-endian bytes, 44 zero bytes.
C3_NewFeeds64 ==
    last.op = "new" =>
        /\ Len(digest) = 64
        /\ SubSeq(digest, 1, 8) = <<69, 67, 82, 69, 65, 84, 69, 0>>
        /\ from_le_bytes(SubSeq(digest, 9, 12)) = last.ssa
        /\ from_le_bytes(SubSeq(digest, 13, 20)) = last.size
        /\ \A i \in 21..64 : digest[i] = 0

C3_Witness ==
    /\ last.op = "new"
    /\ last.size = 1048576
    /\ last.ssa = 65537
    /\ SubSeq(digest, 9, 20) = <<1, 0, 1, 0, 0, 0, 16, 0, 0, 0, 0, 0>>

\* the digest after the last call had it been made with other arguments
C8_Reload(len, fill, offset) ==
    Hasher_load(before, Pages(len, fill), offset, last.secinfo, FALSE).digest

\* C8 as stated: with measure = false the page contents do not change the
\* digest input, while another offset, or another number of pages, does.
C8_UnmeasuredAsStated ==
    (last.op = "load" /\ last.ret = "Ok" /\ ~last.measure) =>
        /\ \A fill \in Fills :
              C8_Reload(last.len, fill, last.offset) = digest
        /\ \A offset \in Offsets \ {last.offset} :
              C8_Reload(last.len, last.fill, offset) # digest
        /\ \A len \in (PageLens \cup {0}) \ {last.len} :
              C8_Reload(len, last.fill, last.offset) # digest

\* C8 amended: another offset changes the digest input of a load of at
\* least one page.
C8_Unmeasured ==
    (last.op = "load" /\ last.ret = "Ok" /\ ~last.measure) =>
        /\ \A fill \in Fills :
              C8_Reload(last.len, fill, last.offset) = digest
        /\ \A offset \in Offsets \ {last.offset} :
              last.len > 0 => C8_Reload(last.len, last.fill, offset) # digest
        /\ \A len \in (PageLens \cup {0}) \ {last.len} :
              C8_Reload(len, last.fill, last.offset) # digest

C8_Witness ==
    /\ last.op = "load"
    /\ last.ret = "Ok"
    /\ ~last.measure
    /\ last.len = 8192
    /\ last.fill = 1
    /\ Len(digest) = Len(before) + 128

\* the digest after the last call had its pages been loaded in two calls,
\* the first k pages and then the rest
C10_Split(k) ==
    LET A == SubSeq(LastPages, 1, k * 4096)
        B == SubSeq(LastPages, k * 4096 + 1, last.len)
        first == Hasher_load(before, A, last.offset, last.secinfo,
                             last.measure)
        second == Hasher_load(first.digest, B, last.offset + Len(A),
                              last.secinfo, last.measure)
    IN  second

\* C10: load(A ++ B, offset) leaves the digest that load(A, offset) and then
\* load(B, offset + len(A)) leave, at every split point and after any loads.
C10_SplitLoad ==
    (last.op = "load" /\ last.ret = "Ok") =>
        \A k \in 0..(last.len \div 4096) :
            /\ C10_Split(k).ret = "Ok"
            /\ C10_Split(k).digest = digest

C10_Witness ==
    /\ last.op = "load"
    /\ last.ret = "Ok"
    /\ last.len = 8192
    /\ last.measure
    /\ last.fill = 1
    /\ last.offset = 4096
    /\ Len(before) > 64

(***************************************************************************)
(* Properties of sig.rs.                                                   *)
(***************************************************************************)
\* C4: sign returns an error for every key whose public exponent is not 3,
\* before any signature computation: no signer, no bytes fed to one, and no
\* q1/q2 arithmetic.
C4_ExponentRejected ==
    (sg.called /\ sg.e # 3) =>
        /\ sg.ret = "Err"
        /\ ~sg.signer
        /\ sg.fed = <<>>
        /\ ~sg.arith
        /\ sg.value = NoSignature

C4_Witness ==
    /\ sg.called
    /\ sg.e = 65537
    /\ sg.fault = "none"
    /\ sg.ret = "Err"
    /\ ~sg.signer

\* C5: the q1 and q2 of a Signature that sign returns are
\* floor(s^2 / m) and floor(s * (s^2 mod m) / m), for its signature s and
\* modulus m read back from the stored fields.
C5_Quotients ==
    sg.ret = "Ok" =>
        LET s == from_le_bytes(sg.value.signature)
            m == from_le_bytes(sg.value.modulus)
            q1 == from_le_bytes(sg.value.q1)
            q2 == from_le_bytes(sg.value.q2)
            r == (s * s) % m
        IN  /\ s = sg.s
            /\ m = sg.n
            /\ m > 0
            /\ q1 * m + r = s * s
            /\ q2 * m <= s * r
            /\ s * r < (q2 + 1) * m

C5_Witness ==
    /\ sg.ret = "Ok"
    /\ sg.n = 46337
    /\ sg.s = 23168
    /\ from_le_bytes(sg.value.q1) = 11583
    /\ from_le_bytes(sg.value.q2) = 17376

\* C6: read_from returns an error, and no Signature, when the source holds
\* fewer than 1808 bytes; it reads exactly 1808 bytes and returns a
\* Signature when the source holds at least that many.
C6_ShortReadIsError ==
    rd.called =>
        /\ rd.len < 1808 => (rd.ret = "Err" /\ rd.value = <<>>)
        /\ rd.len >= 1808 => (rd.ret = "Ok" /\ rd.consumed = 1808)

\* the layout table: the (offset, size) of every field
C7_Table(name) ==
    CASE name = "Author" ->
            <<<<0, 16>>, <<16, 4>>, <<20, 4>>, <<24, 16>>, <<40, 4>>,
              <<44, 84>>>>
      [] name = "Measurement" ->
            <<<<0, 8>>, <<8, 20>>, <<28, 32>>, <<60, 32>>, <<92, 32>>,
              <<124, 2>>, <<126, 2>>>>
      [] name = "Signature" ->
            <<<<0, 128>>, <<128, 384>>, <<512, 4>>, <<516, 384>>,
              <<900, 128>>, <<1028, 12>>, <<1040, 384>>, <<1424, 384>>>>

C7_Size(name) == IF name = "Signature" THEN 1808 ELSE 128

C7_Align(name) == IF name = "Measurement" THEN 4 ELSE 8

\* C7: every field of Author, Measurement and Signature lies at the offset
\* of the layout table and has its size; it begins where the field before
\* it ends, the first at 0; the last ends at the size of the structure
\* (128, 128, 1808), which is a multiple of its alignment (8, 4, 8).
C7_Layout ==
    probe.name # "none" =>
        /\ probe.count = Len(C7_Table(probe.name))
        /\ probe.offset = C7_Table(probe.name)[probe.index][1]
        /\ probe.size = C7_Table(probe.name)[probe.index][2]
        /\ probe.offset = probe.prev_end
        /\ probe.index = 1 => probe.offset = 0
        /\ probe.index = probe.count =>
              probe.offset + probe.size = C7_Size(probe.name)
        /\ probe.struct_size = C7_Size(probe.name)
        /\ probe.struct_align = C7_Align(probe.name)
        /\ probe.struct_size % probe.struct_align = 0

C7_Witness ==
    /\ probe.name = "Signature"
    /\ probe.field = "q2"
    /\ probe.offset = 1424
    /\ probe.prev_end = 1424
    /\ probe.passed

C9_bit(v, i) == (v \div 2 ^ i) % 2

\* C9: Masked::from(v) equals v and nothing else; and whether a Masked
\* equals a value does not change with the bits of the value that are 0 in
\* the mask.
C9_MaskedEq ==
    cmp.done =>
        /\ mk.made = "from" => (cmp.result <=> cmp.other = mk.data)
        /\ \A other \in T_values :
              (\A i \in 0..(MaskBits - 1) :
                  C9_bit(mk.mask, i) = 1 =>
                      C9_bit(other, i) = C9_bit(cmp.other, i))
              => (Masked_eq(mk, other) <=> cmp.result)

C9_Witness ==
    /\ cmp.done
    /\ mk.made = "from"
    /\ mk.data = 5
    /\ cmp.other = 4
    /\ ~cmp.result

====
